---- MODULE Spec2Model ----
(***************************************************************************)
(* Model of the assortment-planning code of menosgeze/SampleWork:          *)
(*   AssortmentPlanning/src/algorithms/greedy_forward_selection.py         *)
(*   AssortmentPlanning/src/settings/simulated_problem.py                  *)
(*   PSO/src/pso.py, PSO/src/particles.py                                  *)
(*                                                                         *)
(* Numbers are integers (sizes, objectives and transfer fractions in a     *)
(* fixed unit); a quotient is kept exact as a reduced fraction n/d.        *)
(* Python values whose type decides what an operator does carry their type *)
(* (PyNum, PyTuple1): compute_selection_size returns a 1-tuple, and what   *)
(* `<=` and `-` do with a tuple depends on the other operand's type.       *)
(***************************************************************************)
EXTENDS Integers, Sequences, FiniteSets, TLC

(* ------------------------------ bounds -------------------------------- *)
NItems == 2
MaxSize == 2
MaxCap == 3
MaxVal == 2
MaxT == 1

Items == 1..NItems
\* all_items: the catalog in its sorted order.
all_items == [i \in 1..NItems |-> i]
SizeTables == [Items -> 1..MaxSize]
Capacities == 1..MaxCap
ValueTables == [Items -> 0..MaxVal]
FitnessTypes == {"objective", "objective_per_size"}

(* --------------------------- helper operators ------------------------- *)
ToSet(s) == {s[i] : i \in DOMAIN s}

RECURSIVE SumOver(_, _)
SumOver(f, S) ==
    IF S = {} THEN 0
    ELSE LET x == CHOOSE y \in S : TRUE IN f[x] + SumOver(f, S \ {x})

\* Tuples of distinct catalog items, in any order, of length n.
RECURSIVE TuplesOfLen(_)
TuplesOfLen(n) ==
    IF n = 0 THEN {<<>>}
    ELSE {Append(t, i) : t \in TuplesOfLen(n - 1), i \in Items}

DistinctTuples ==
    {t \in UNION {TuplesOfLen(n) : n \in 0..NItems} :
        \A a, b \in DOMAIN t : a # b => t[a] # t[b]}

\* sorted(...) of a list of items.
Sorted(s) == SortSeq(s, LAMBDA a, b : a < b)

RECURSIVE GCD(_, _)
GCD(a, b) == IF b = 0 THEN a ELSE GCD(b, a % b)

Abs(x) == IF x < 0 THEN -x ELSE x

\* The exact value of a / b for b > 0, as a reduced fraction.
Frac(a, b) ==
    LET g == GCD(Abs(a), b)
    IN  [n |-> a \div g, d |-> b \div g]

FracLess(x, y) == x.n * y.d < y.n * x.d

(* ---------------------------- Python values --------------------------- *)
\* A number: t is "int", "float" or "numpy.float64".
PyNum(t, x) == [type |-> t, v |-> x]
\* The 1-tuple (x,).
PyTuple1(x) == [type |-> "tuple", v |-> <<x>>]
IsNum(a) == a.type \in {"int", "float", "numpy.float64"}

Returned(x) == [exc |-> "None", val |-> x]
Raised(e) == [exc |-> e, val |-> <<>>]

\* a <= b. A tuple compared with an int or a float: both __le__ and the
\* reflected __ge__ answer NotImplemented, a TypeError. Compared with a
\* numpy scalar, the reflected numpy comparison broadcasts over the tuple
\* and gives a 1-element array, whose truth value is its element's.
PyLe(a, b) ==
    IF IsNum(a) /\ IsNum(b) THEN Returned(a.v <= b.v)
    ELSE IF a.type = "tuple" /\ b.type = "tuple" THEN Returned(a.v[1] <= b.v[1])
    ELSE IF a.type = "tuple" /\ b.type = "numpy.float64" THEN Returned(a.v[1] <= b.v)
    ELSE Raised("TypeError")

\* a - b for the operands the code passes: numbers subtract; a tuple minus
\* an int or a tuple is a TypeError.
PySub(a, b) ==
    IF IsNum(a) /\ IsNum(b) THEN Returned(a.v - b.v)
    ELSE Raised("TypeError")

(* ------------------------------ variables ----------------------------- *)
VARIABLES
    call,            \* the pure function called, its arguments and its result
    item_sizes,      \* item -> size (the `item`/`size` frame)
    capacity,        \* the capacity's value
    capacity_type,   \* the Python type of the capacity the caller passed
    item_values,     \* item -> objective of the caller's objective function
    fitness,         \* forward_greedy_selection: the fitness argument
    base_selection,  \* forward_greedy_selection: the base_selection argument
    curr_selection,  \* forward_greedy_selection: local
    history,         \* forward_greedy_selection: local dict, in insertion order
    max_selection,   \* forward_greedy_selection: local, {} while unbound
    pc,              \* forward_greedy_selection: where the call is
    exception,       \* forward_greedy_selection: the exception raised
    module_globals,  \* pso.py: whether item_sizes, capacity, optimizer are bound
    particles,       \* the Particle objects, by identity (1, 2, ...)
    custom,          \* init_swarm: the caller's list of seed particles
    n_agents,        \* init_swarm: the n_agents argument
    todo,            \* _initialize_agents: the seeds still to adjust
    n_new_agents,    \* _initialize_agents: the random agents still to create
    agents,          \* _initialize_agents: the agents so far
    swarm,           \* self.swarm: {} while None, else {the Swarm}
    pso_pc,          \* init_swarm: where the call is
    pso_exception    \* init_swarm: the exception raised

greedy_vars ==
    <<item_sizes, capacity, capacity_type, item_values, fitness, base_selection,
      curr_selection, history, max_selection, pc, exception>>

pso_vars ==
    <<module_globals, particles, custom, n_agents, todo, n_new_agents, agents,
      swarm, pso_pc, pso_exception>>

vars == <<call, greedy_vars, pso_vars>>

\* The locals of forward_greedy_selection while no call of it is modelled.
GreedyLocalsIdle ==
    /\ fitness = "objective"
    /\ base_selection = <<>>
    /\ curr_selection = <<>>
    /\ history = <<>>
    /\ max_selection = {}
    /\ pc = "idle"
    /\ exception = "None"

GreedyIdle ==
    /\ item_sizes = [i \in Items |-> 1]
    /\ capacity = 1
    /\ capacity_type = "float"
    /\ item_values = [i \in Items |-> 0]
    /\ GreedyLocalsIdle

\* The state of the optimizer while no call on it is modelled.
PsoIdle ==
    /\ module_globals = "unbound"
    /\ particles = <<>>
    /\ custom = <<>>
    /\ n_agents = 0
    /\ todo = <<>>
    /\ n_new_agents = 0
    /\ agents = <<>>
    /\ swarm = {}
    /\ pso_pc = "idle"
    /\ pso_exception = "None"

NoCall == [fn |-> "none", args |-> <<>>, result |-> <<>>]

(* -------------------- greedy_forward_selection.py --------------------- *)
\* item_sizes[item_sizes["item"].isin(selection)]["size"].sum()
SelectionSizeSum(selection, sizes) ==
    SumOver(sizes, {i \in DOMAIN sizes : i \in ToSet(selection)})

compute_selection_size(selection, sizes) ==
    PyTuple1(SelectionSizeSum(selection, sizes))

\* Faulty variant: the zero-delta short-circuit of line 48 is missing.
compute_fitness_increase_no_short_circuit(this_objective, prev_objective, this_size, prev_size, fitness_type) ==
    IF fitness_type \notin {"objective", "objective_per_size"}
    THEN Raised("ValueError")
    ELSE LET objective_increase == this_objective - prev_objective IN
         IF fitness_type = "objective"
         THEN Returned(Frac(objective_increase, 1))
         ELSE LET size_increase == PySub(this_size, prev_size) IN
              IF size_increase.exc # "None" THEN Raised(size_increase.exc)
              ELSE IF size_increase.val <= 0 THEN Raised("ValueError")
              ELSE Returned(Frac(objective_increase, size_increase.val))

compute_fitness_increase(this_objective, prev_objective, this_size, prev_size, fitness_type) ==
    IF fitness_type \notin {"objective", "objective_per_size"}
    THEN Raised("ValueError")
    ELSE LET objective_increase == this_objective - prev_objective IN
         IF fitness_type = "objective" \/ objective_increase = 0
         THEN Returned(Frac(objective_increase, 1))
         ELSE LET size_increase == PySub(this_size, prev_size) IN
              IF size_increase.exc # "None" THEN Raised(size_increase.exc)
              ELSE IF size_increase.val <= 0 THEN Raised("ValueError")
              ELSE Returned(Frac(objective_increase, size_increase.val))

\* The caller's compute_total_objective: the sum of the objectives of the
\* items of the selection (an objective without transfers).
compute_total_objective(selection) ==
    SumOver(item_values, ToSet(selection) \cap Items)

\* A set S of numbers as the sequence of its elements in increasing order.
RECURSIVE SortedSeqOf(_)
SortedSeqOf(S) ==
    IF S = {} THEN <<>>
    ELSE LET m == CHOOSE x \in S : \A y \in S : x <= y
         IN  <<m>> \o SortedSeqOf(S \ {m})

\* history: the dict as the sequence of its values in insertion order.
HistoryHas(h, key) == \E k \in DOMAIN h : h[k].selection = key
HistoryGet(h, key) == h[CHOOSE k \in DOMAIN h : h[k].selection = key]
HistoryPut(h, key, rec) ==
    IF HistoryHas(h, key)
    THEN [k \in DOMAIN h |-> IF h[k].selection = key THEN rec ELSE h[k]]
    ELSE Append(h, rec)

\* tuple(sorted(list(curr_selection) + [item]))
attempted_selection(curr, item) == Sorted(Append(curr, item))

\* Faulty variant: line 133 without the `attempted_size <= capacity` test.
feasible_selections_no_capacity_test(curr, h) ==
    LET keep == {i \in 1..NItems :
                    /\ all_items[i] \notin ToSet(curr)
                    /\ ~HistoryHas(h, attempted_selection(curr, all_items[i]))}
        order == SortedSeqOf(keep)
    IN  [k \in DOMAIN order |->
            [selection |-> attempted_selection(curr, all_items[order[k]]),
             size |-> compute_selection_size(
                          attempted_selection(curr, all_items[order[k]]), item_sizes)]]

\* Faulty variant: line 130 without the `item not in curr_selection` test.
feasible_selections_any_item(curr, h) ==
    LET keep == {i \in 1..NItems :
                    /\ PyLe(compute_selection_size(
                                attempted_selection(curr, all_items[i]), item_sizes),
                            PyNum(capacity_type, capacity)).val
                    /\ ~HistoryHas(h, attempted_selection(curr, all_items[i]))}
        order == SortedSeqOf(keep)
    IN  [k \in DOMAIN order |->
            [selection |-> attempted_selection(curr, all_items[order[k]]),
             size |-> compute_selection_size(
                          attempted_selection(curr, all_items[order[k]]), item_sizes)]]

\* Lines 128-134: the feasible selections with one more item, in the order
\* of all_items, each with its size. The comparison with the capacity has
\* the operand types of the loop condition, which did not raise.
feasible_selections(curr, h) ==
    LET keep == {i \in 1..NItems :
                    /\ all_items[i] \notin ToSet(curr)
                    /\ PyLe(compute_selection_size(
                                attempted_selection(curr, all_items[i]), item_sizes),
                            PyNum(capacity_type, capacity)).val
                    /\ ~HistoryHas(h, attempted_selection(curr, all_items[i]))}
        order == SortedSeqOf(keep)
    IN  [k \in DOMAIN order |->
            [selection |-> attempted_selection(curr, all_items[order[k]]),
             size |-> compute_selection_size(
                          attempted_selection(curr, all_items[order[k]]), item_sizes)]]

\* The fitness of a candidate relative to the current selection (lines 154-160).
candidate_fitness(candidate, curr, h) ==
    compute_fitness_increase(
        compute_total_objective(candidate.selection),
        HistoryGet(h, curr).objective,
        candidate.size,
        HistoryGet(h, curr).size,
        fitness)

\* Lines 141-164 from the k-th feasible selection on: each is recorded in the
\* history and becomes max_selection when its fitness exceeds max_fitness,
\* which stays the placeholder 0.
RECURSIVE search_best(_, _, _, _, _)
search_best(k, feasible, curr, h, max_sel) ==
    IF k > Len(feasible) THEN [exc |-> "None", history |-> h, max_selection |-> max_sel]
    ELSE LET fit == candidate_fitness(feasible[k], curr, h) IN
         IF fit.exc # "None"
         THEN [exc |-> fit.exc, history |-> h, max_selection |-> max_sel]
         ELSE search_best(k + 1, feasible, curr,
                  HistoryPut(h, feasible[k].selection,
                      [selection |-> feasible[k].selection,
                       from |-> {curr},
                       size |-> feasible[k].size,
                       objective |-> compute_total_objective(feasible[k].selection),
                       fitness |-> fit.val]),
                  IF FracLess(Frac(0, 1), fit.val)
                  THEN {feasible[k].selection}
                  ELSE max_sel)

GreedyInputs ==
    /\ item_sizes \in SizeTables
    /\ capacity \in Capacities
    /\ capacity_type \in {"float", "numpy.float64"}
    /\ item_values \in ValueTables
    /\ fitness \in FitnessTypes \cup {"other"}
    /\ base_selection \in DistinctTuples

InitGreedy ==
    /\ call = NoCall
    /\ GreedyInputs
    /\ curr_selection = <<>>
    /\ history = <<>>
    /\ max_selection = {}
    /\ pc = "start"
    /\ exception = "None"
    /\ PsoIdle

greedy_inputs == <<item_sizes, capacity, capacity_type, item_values, fitness, base_selection>>

GreedyRaise(e) ==
    /\ pc' = "raised"
    /\ exception' = e
    /\ UNCHANGED <<call, pso_vars, greedy_inputs, curr_selection, history, max_selection>>

\* Lines 94-122: the fitness check, the base selection and its record.
GreedyStart ==
    /\ pc = "start"
    /\ IF fitness \notin {"objective", "objective_per_size"}
       THEN GreedyRaise("ValueError")
       ELSE LET size == compute_selection_size(base_selection, item_sizes)
                objective == compute_total_objective(base_selection)
                fit == compute_fitness_increase(objective, 0, size, PyNum("int", 0), fitness)
            IN  IF fit.exc # "None"
                THEN GreedyRaise(fit.exc)
                ELSE /\ curr_selection' = base_selection
                     /\ history' = <<[selection |-> base_selection,
                                      from |-> {},
                                      size |-> size,
                                      objective |-> objective,
                                      fitness |-> fit.val]>>
                     /\ pc' = "loop"
                     /\ UNCHANGED <<call, pso_vars, greedy_inputs, max_selection, exception>>

\* One iteration of the while loop of lines 125-166, or its exit.
GreedyIterate ==
    /\ pc = "loop"
    /\ LET cond == PyLe(HistoryGet(history, curr_selection).size,
                        PyNum(capacity_type, capacity))
       IN  IF cond.exc # "None" THEN GreedyRaise(cond.exc)
           ELSE IF ~cond.val \/ Len(feasible_selections(curr_selection, history)) = 0
           THEN /\ pc' = "done"
                /\ UNCHANGED <<call, pso_vars, greedy_inputs, curr_selection, history,
                               max_selection, exception>>
           ELSE LET best == search_best(1, feasible_selections(curr_selection, history),
                                        curr_selection, history, max_selection)
                IN  IF best.exc # "None" THEN GreedyRaise(best.exc)
                    ELSE IF best.max_selection = {} THEN GreedyRaise("UnboundLocalError")
                    ELSE /\ history' = best.history
                         /\ max_selection' = best.max_selection
                         /\ curr_selection' = CHOOSE sel \in best.max_selection : TRUE
                         /\ pc' = "loop"
                         /\ UNCHANGED <<call, pso_vars, greedy_inputs, exception>>

NextGreedy == GreedyStart \/ GreedyIterate

SpecGreedy == InitGreedy /\ [][NextGreedy]_vars

(* ================== claims on forward_greedy_selection ================ *)
TotalSize(selection) == SumOver(item_sizes, ToSet(selection) \cap Items)

C2_AdvancesToFirstGreatest ==
    pc \in {"loop", "done"} /\ curr_selection # base_selection =>
        LET me == CHOOSE k \in DOMAIN history : history[k].selection = curr_selection
        IN  \A k \in DOMAIN history :
                history[k].from = history[me].from =>
                    /\ ~FracLess(history[me].fitness, history[k].fitness)
                    /\ k < me => FracLess(history[k].fitness, history[me].fitness)

\* C3: the trace never holds two records of the same selection, compared as
\* sets of items.
C3_NoDuplicateSelections ==
    \A a, b \in DOMAIN history :
        a # b => ToSet(history[a].selection) # ToSet(history[b].selection)

\* C3 witness: the search returned after an iteration whose every feasible
\* candidate had been visited before (it is in the trace and fits).
C3_Witness ==
    /\ pc = "done"
    /\ Len(history) >= 3
    /\ \E i \in Items \ ToSet(curr_selection) :
          /\ HistoryHas(history, attempted_selection(curr_selection, i))
          /\ TotalSize(attempted_selection(curr_selection, i)) <= capacity

\* An iteration is about to run (or has just raised) that has feasible
\* unvisited candidates, each of a fitness that is computed and is <= 0.
IterationWithoutPositiveCandidate ==
    /\ pc \in {"loop", "raised"}
    /\ HistoryHas(history, curr_selection)
    /\ PyLe(HistoryGet(history, curr_selection).size,
            PyNum(capacity_type, capacity)) = Returned(TRUE)
    /\ LET feasible == feasible_selections(curr_selection, history)
       IN  /\ Len(feasible) > 0
           /\ \A k \in DOMAIN feasible :
                LET fit == candidate_fitness(feasible[k], curr_selection, history)
                IN  fit.exc = "None" /\ ~FracLess(Frac(0, 1), fit.val)

\* C10 (as stated): an iteration with feasible unvisited candidates none of
\* which has a fitness above zero, the first iteration included, accepts no
\* candidate and raises nothing: the current selection stays, and the search
\* has ended or ends at the next test for candidates.
C10_NoPositiveCandidateEndsSearch ==
    [][(pc = "loop" /\ IterationWithoutPositiveCandidate) =>
          /\ pc' \in {"loop", "done"}
          /\ exception' = "None"
          /\ curr_selection' = curr_selection
          /\ Len(feasible_selections(curr_selection', history')) = 0]_vars


(* ------------------------ simulated_problem.py ------------------------ *)
\* Transfer matrices of the data model: no self-transfer.
TransferMatrices ==
    {T \in [Items -> [Items -> 0..MaxT]] : \A i \in Items : T[i][i] = 0}

\* Faulty variant: the `else` of line 156 is missing, so a selected item's objective
\* is transferred as well.
RECURSIVE objective_first_loop_no_else(_, _, _, _, _, _)
objective_first_loop_no_else(index, items, initial_objectives, transfer_matrix, objectives, transfering) ==
    IF index > NItems THEN [objectives |-> objectives, transfering |-> transfering]
    ELSE objective_first_loop_no_else(index + 1, items, initial_objectives, transfer_matrix,
            IF all_items[index] \in ToSet(items)
            THEN [objectives EXCEPT ![all_items[index]] = @ + initial_objectives[all_items[index]]]
            ELSE objectives,
            [j \in Items |-> transfering[j]
                + transfer_matrix[index][j] * initial_objectives[all_items[index]]])

\* The first loop over initial_objectives.iterrows(), from row `index` on:
\* a selected item's own objective is added to objectives[item], an
\* unselected one's objective times its row of the matrix to `transfering`.
RECURSIVE objective_first_loop(_, _, _, _, _, _)
objective_first_loop(index, items, initial_objectives, transfer_matrix, objectives, transfering) ==
    IF index > NItems THEN [objectives |-> objectives, transfering |-> transfering]
    ELSE IF all_items[index] \in ToSet(items)
    THEN objective_first_loop(index + 1, items, initial_objectives, transfer_matrix,
            [objectives EXCEPT ![all_items[index]] = @ + initial_objectives[all_items[index]]],
            transfering)
    ELSE objective_first_loop(index + 1, items, initial_objectives, transfer_matrix,
            objectives,
            [j \in Items |-> transfering[j]
                + transfer_matrix[index][j] * initial_objectives[all_items[index]]])

\* The second loop: a selected item receives transfering[index].
RECURSIVE objective_second_loop(_, _, _, _)
objective_second_loop(index, items, objectives, transfering) ==
    IF index > NItems THEN objectives
    ELSE IF all_items[index] \in ToSet(items)
    THEN objective_second_loop(index + 1, items,
            [objectives EXCEPT ![all_items[index]] = @ + transfering[index]], transfering)
    ELSE objective_second_loop(index + 1, items, objectives, transfering)

compute_selection_objective(items, initial_objectives, transfer_matrix) ==
    IF Len(items) = 0 THEN [i \in Items |-> 0]
    ELSE LET first == objective_first_loop(1, items, initial_objectives, transfer_matrix,
                          [i \in Items |-> 0], [j \in Items |-> 0])
         IN  objective_second_loop(1, items, first.objectives, first.transfering)

(* ------------- calls of the pure functions, one per action ------------ *)
InitFunctions == call = NoCall /\ GreedyIdle /\ PsoIdle

CallComputeSelectionSize ==
    /\ call = NoCall
    /\ \E selection \in DistinctTuples, sizes \in SizeTables :
        /\ UNCHANGED <<greedy_vars, pso_vars>>
        /\ call' = [fn |-> "compute_selection_size",
                 args |-> [selection |-> selection, item_sizes |-> sizes],
                 result |-> compute_selection_size(selection, sizes)]

CallComputeFitnessIncrease ==
    /\ call = NoCall
    /\ \E this_objective \in 0..MaxVal, prev_objective \in 0..MaxVal,
       this_size \in 0..MaxCap, prev_size \in 0..MaxCap,
       fitness_type \in FitnessTypes \cup {"other"} :
        /\ UNCHANGED <<greedy_vars, pso_vars>>
        /\ call' = [fn |-> "compute_fitness_increase",
                 args |-> [this_objective |-> this_objective,
                           prev_objective |-> prev_objective,
                           this_size |-> this_size, prev_size |-> prev_size,
                           fitness_type |-> fitness_type],
                 result |-> compute_fitness_increase(this_objective, prev_objective,
                               PyNum("float", this_size), PyNum("float", prev_size),
                               fitness_type)]

CallComputeSelectionObjective ==
    /\ call = NoCall
    /\ \E items \in DistinctTuples, initial_objectives \in ValueTables,
       transfer_matrix \in TransferMatrices :
        /\ UNCHANGED <<greedy_vars, pso_vars>>
        /\ call' = [fn |-> "compute_selection_objective",
                 args |-> [items |-> items, initial_objectives |-> initial_objectives,
                           transfer_matrix |-> transfer_matrix],
                 result |-> compute_selection_objective(items, initial_objectives,
                               transfer_matrix)]

NextFunctions ==
    \/ CallComputeSelectionSize
    \/ CallComputeFitnessIncrease
    \/ CallComputeSelectionObjective

SpecFunctions == InitFunctions /\ [][NextFunctions]_vars

(* ======================= claims on the pure functions ================= *)

\* C9 (as stated): compute_selection_size returns the number that is the sum
\* of the sizes of the items of the selection (0 for the empty selection),
\* a value that compares directly with the capacity.
C9_SizeIsTheSumAsANumber ==
    call.fn = "compute_selection_size" =>
        /\ IsNum(call.result)
        /\ call.result.v =
              SumOver(call.args.item_sizes, ToSet(call.args.selection) \cap Items)

C4_SelectionObjective ==
    call.fn = "compute_selection_objective" =>
        LET S == ToSet(call.args.items)
            b == call.args.initial_objectives
            T == call.args.transfer_matrix
        IN  \A j \in Items :
                call.result[j] =
                    IF j \in S
                    THEN b[j] + SumOver([i \in Items |-> b[i] * T[i][j]], Items \ S)
                    ELSE 0

\* C4 witness: a non-empty selection with an unselected item left out, one
\* of whose transfers to a selected item is non-zero.
C4_Witness ==
    /\ call.fn = "compute_selection_objective"
    /\ \E j \in ToSet(call.args.items), i \in Items \ ToSet(call.args.items) :
          /\ call.args.initial_objectives[i] * call.args.transfer_matrix[i][j] > 0
          /\ call.result[j] > call.args.initial_objectives[j]
          /\ call.result[i] = 0

(* ------------------------------- pso.py ------------------------------- *)
MaxSeeds == 2
MaxAgents == 2

\* The orders rng.choice(..., replace=False) and rng.permutation can draw:
\* an order of the whole catalog, of which a loop visits the rows it selects.
Orderings == {o \in [1..NItems -> Items] : \A a, b \in 1..NItems : a # b => o[a] # o[b]}

\* The selections a caller's seed particle holds: sorted tuples of items.
SeedSelections == {t \in DistinctTuples : t = Sorted(t)}

\* Sequences of at most n elements of S.
RECURSIVE SeqsUpTo(_, _)
SeqsUpTo(S, n) ==
    IF n = 0 THEN {<<>>}
    ELSE SeqsUpTo(S, n - 1)
         \cup {Append(q, x) : q \in {r \in SeqsUpTo(S, n - 1) : Len(r) = n - 1}, x \in S}

\* Particle(selection): a new object, its objective the default 0.
NewParticle(heap, selection) == Append(heap, [selection |-> selection, objective |-> 0])

\* copy(agent): a new object with the same fields.
CopyParticle(heap, a) == Append(heap, heap[a])

\* self.compute_objective(agent), the caller's function: the sum of the
\* objectives of the agent's items.
compute_objective(heap, a) == SumOver(item_values, ToSet(heap[a].selection) \cap Items)

get_agent_size(heap, a) == SumOver(item_sizes, ToSet(heap[a].selection) \cap Items)

\* What a method returns: an exception, or the heap and the particle returned.
PsoRaised(e, heap) == [exc |-> e, particles |-> heap, agent |-> 0]
PsoReturned(heap, a) == [exc |-> "None", particles |-> heap, agent |-> a]

\* Lines 53-59, from the k-th row of the visiting order on.
RECURSIVE increase_loop(_, _, _, _)
increase_loop(order, k, increased_selection, capacity_remaining) ==
    IF k > Len(order) THEN increased_selection
    ELSE LET fits == item_sizes[order[k]] <= capacity_remaining
             selection == IF fits THEN Append(increased_selection, order[k])
                          ELSE increased_selection
             remaining == IF fits THEN capacity_remaining - item_sizes[order[k]]
                          ELSE capacity_remaining
         IN  IF remaining = 0 THEN selection
             ELSE increase_loop(order, k + 1, selection, remaining)

\* _increase_size_to_capacity. The bare names item_sizes and capacity of
\* lines 47-51 are module globals: a NameError where the module binds none,
\* the optimizer's own arguments where the caller's namespace binds them.
increase_size_to_capacity(heap, a, ordering) ==
    LET this_size == get_agent_size(heap, a) IN
    IF this_size > capacity THEN PsoReturned(heap, a)
    ELSE IF module_globals = "unbound" THEN PsoRaised("NameError", heap)
    ELSE LET order == SelectSeq(ordering, LAMBDA i : i \notin ToSet(heap[a].selection))
             increased == increase_loop(order, 1, heap[a].selection, capacity - this_size)
         IN  PsoReturned(NewParticle(heap, Sorted(increased)), Len(heap) + 1)

\* Lines 79-84, from the k-th row of the visiting order on.
RECURSIVE decrease_loop(_, _, _, _)
decrease_loop(order, k, decreased_selection, this_capacity) ==
    IF k > Len(order) THEN decreased_selection
    ELSE LET over == this_capacity > capacity
             selection == IF over
                          THEN SelectSeq(decreased_selection, LAMBDA i : i # order[k])
                          ELSE decreased_selection
             left == IF over THEN this_capacity - item_sizes[order[k]] ELSE this_capacity
         IN  IF left <= capacity THEN selection
             ELSE decrease_loop(order, k + 1, selection, left)

\* _decrease_size_to_capacity, with the same module globals at lines 74-83.
decrease_size_to_capacity(heap, a, ordering) ==
    LET this_capacity == get_agent_size(heap, a) IN
    IF this_capacity <= capacity THEN PsoReturned(heap, a)
    ELSE IF module_globals = "unbound" THEN PsoRaised("NameError", heap)
    ELSE LET order == SelectSeq(ordering, LAMBDA i : i \in ToSet(heap[a].selection))
             decreased == decrease_loop(order, 1, heap[a].selection, this_capacity)
         IN  PsoReturned(NewParticle(heap, Sorted(decreased)), Len(heap) + 1)

adjust_capacity(heap, a, ordering) ==
    LET this_capacity == get_agent_size(heap, a) IN
    IF this_capacity < capacity THEN increase_size_to_capacity(heap, a, ordering)
    ELSE IF this_capacity > capacity THEN decrease_size_to_capacity(heap, a, ordering)
    ELSE PsoReturned(heap, a)

(* ---------------- adjust_capacity called on one particle -------------- *)
InitAdjust ==
    /\ call = NoCall
    /\ GreedyLocalsIdle
    /\ item_sizes \in SizeTables
    /\ capacity \in Capacities
    /\ capacity_type = "float"
    /\ item_values = [i \in Items |-> 0]
    /\ module_globals \in {"unbound", "bound"}
    /\ \E selection \in DistinctTuples :
          particles = <<[selection |-> selection, objective |-> 0]>>
    /\ custom = <<>>
    /\ n_agents = 0
    /\ todo = <<>>
    /\ n_new_agents = 0
    /\ agents = <<>>
    /\ swarm = {}
    /\ pso_pc = "idle"
    /\ pso_exception = "None"

CallAdjustCapacity ==
    /\ call = NoCall
    /\ pso_pc = "idle"
    /\ \E ordering \in Orderings :
          LET r == adjust_capacity(particles, 1, ordering)
          IN  /\ call' = [fn |-> "adjust_capacity",
                          args |-> [agent |-> 1, rng |-> ordering],
                          result |-> IF r.exc = "None" THEN Returned(r.agent)
                                     ELSE Raised(r.exc)]
              /\ particles' = r.particles
    /\ UNCHANGED <<greedy_vars, module_globals, custom, n_agents, todo,
                   n_new_agents, agents, swarm, pso_pc, pso_exception>>

NextAdjust == CallAdjustCapacity

SpecAdjust == InitAdjust /\ [][NextAdjust]_vars

(* ------------------------------ init_swarm ---------------------------- *)
\* custom[:n]
PySlicePrefix(list, n) ==
    IF n >= 0
    THEN SubSeq(list, 1, IF n < Len(list) THEN n ELSE Len(list))
    ELSE SubSeq(list, 1, IF Len(list) + n > 0 THEN Len(list) + n ELSE 0)

\* Faulty variant: a sort that puts an agent before the agents of equal objective.
RECURSIVE sorted_by_objective_ties_first(_, _, _)
sorted_by_objective_ties_first(heap, list, k) ==
    IF k = 0 THEN <<>>
    ELSE LET before == sorted_by_objective_ties_first(heap, list, k - 1)
             smaller == SelectSeq(before,
                            LAMBDA a : heap[a].objective < heap[list[k]].objective)
             greater == SelectSeq(before,
                            LAMBDA a : heap[a].objective >= heap[list[k]].objective)
         IN  smaller \o <<list[k]>> \o greater

\* sorted(agents, key=objective): a stable sort, here by insertion of the
\* agents in their order, each after the agents whose key is not greater.
RECURSIVE sorted_by_objective(_, _, _)
sorted_by_objective(heap, list, k) ==
    IF k = 0 THEN <<>>
    ELSE LET before == sorted_by_objective(heap, list, k - 1)
             smaller == SelectSeq(before,
                            LAMBDA a : heap[a].objective <= heap[list[k]].objective)
             greater == SelectSeq(before,
                            LAMBDA a : heap[a].objective > heap[list[k]].objective)
         IN  smaller \o <<list[k]>> \o greater

\* Lines 133-135 from the k-th agent on: agent.objective = compute_objective(agent).
RECURSIVE evaluate_agents(_, _, _)
evaluate_agents(heap, list, k) ==
    IF k > Len(list) THEN heap
    ELSE evaluate_agents(
             [heap EXCEPT ![list[k]].objective = compute_objective(heap, list[k])],
             list, k + 1)

\* Line 137: the heap after [copy(agent) for agent in agents], from the k-th on.
RECURSIVE copy_agents(_, _, _)
copy_agents(heap, list, k) ==
    IF k > Len(list) THEN heap
    ELSE copy_agents(CopyParticle(heap, list[k]), list, k + 1)

\* The catalogs init_swarm is run on: unit sizes, and the sizes 1, 2, ... of
\* the catalog's items in order; the objective that counts the items of a
\* selection, and the one that weighs item i by i.
SwarmSizeTables == {[i \in Items |-> 1], [i \in Items |-> i]}
SwarmValueTables == {[i \in Items |-> 1], [i \in Items |-> i]}

InitSwarm ==
    /\ call = NoCall
    /\ GreedyLocalsIdle
    /\ item_sizes \in SwarmSizeTables
    /\ capacity \in Capacities
    /\ capacity_type = "float"
    /\ item_values \in SwarmValueTables
    /\ module_globals \in {"unbound", "bound"}
    /\ \E seeds \in SeqsUpTo(SeedSelections, MaxSeeds) :
          /\ particles = [k \in DOMAIN seeds |-> [selection |-> seeds[k], objective |-> 0]]
          /\ custom = [k \in DOMAIN seeds |-> k]
    /\ n_agents \in (0 - 1)..MaxAgents
    /\ todo = <<>>
    /\ n_new_agents = 0
    /\ agents = <<>>
    /\ swarm = {}
    /\ pso_pc = "call"
    /\ pso_exception = "None"

pso_inputs == <<module_globals, custom, n_agents>>

PsoRaise(e) ==
    /\ pso_pc' = "raised"
    /\ pso_exception' = e
    /\ UNCHANGED <<call, greedy_vars, pso_inputs, particles, todo, n_new_agents,
                   agents, swarm>>

\* Lines 108-122: which seeds are adjusted and how many agents are new.
InitializeAgentsBegin ==
    /\ pso_pc = "call"
    /\ IF Len(custom) >= n_agents
       THEN todo' = PySlicePrefix(custom, n_agents) /\ n_new_agents' = 0
       ELSE todo' = custom /\ n_new_agents' = n_agents - Len(custom)
    /\ pso_pc' = "initialize_agents"
    /\ UNCHANGED <<call, greedy_vars, pso_inputs, particles, agents, swarm,
                   pso_exception>>

\* Lines 112-120: self.adjust_capacity(agent, rng) for the next seed.
AdjustSeed ==
    /\ pso_pc = "initialize_agents"
    /\ todo # <<>>
    /\ \E ordering \in Orderings :
          LET r == adjust_capacity(particles, Head(todo), ordering)
          IN  IF r.exc # "None" THEN PsoRaise(r.exc)
              ELSE /\ particles' = r.particles
                   /\ agents' = Append(agents, r.agent)
                   /\ todo' = Tail(todo)
                   /\ UNCHANGED <<call, greedy_vars, pso_inputs, n_new_agents, swarm,
                                  pso_pc, pso_exception>>

\* Lines 124-127: a random permutation of the catalog, adjusted. The bare
\* names item_sizes and optimizer are module globals.
NewRandomAgent ==
    /\ pso_pc = "initialize_agents"
    /\ todo = <<>>
    /\ n_new_agents > 0
    /\ IF module_globals = "unbound" THEN PsoRaise("NameError")
       ELSE \E permutation \in Orderings, ordering \in Orderings :
               LET raw == NewParticle(particles, permutation)
                   r == adjust_capacity(raw, Len(raw), ordering)
               IN  IF r.exc # "None" THEN PsoRaise(r.exc)
                   ELSE /\ particles' = r.particles
                        /\ agents' = Append(agents, r.agent)
                        /\ n_new_agents' = n_new_agents - 1
                        /\ UNCHANGED <<call, greedy_vars, pso_inputs, todo, swarm,
                                       pso_pc, pso_exception>>

\* Lines 133-149: the objectives, the cognitive copies, the social copy, the Swarm.
InitSwarmFinish ==
    /\ pso_pc = "initialize_agents"
    /\ todo = <<>>
    /\ n_new_agents = 0
    /\ IF agents = <<>> THEN PsoRaise("IndexError")
       ELSE LET evaluated == evaluate_agents(particles, agents, 1)
                copied == copy_agents(evaluated, agents, 1)
                by_objective == sorted_by_objective(evaluated, agents, Len(agents))
                best == by_objective[Len(by_objective)]
            IN  /\ particles' = CopyParticle(copied, best)
                /\ swarm' = {[all_items |-> all_items,
                              agents |-> agents,
                              cognitive_agents |->
                                  [k \in DOMAIN agents |-> Len(particles) + k],
                              social_agent |-> Len(copied) + 1]}
                /\ pso_pc' = "done"
                /\ UNCHANGED <<call, greedy_vars, pso_inputs, todo, n_new_agents,
                               agents, pso_exception>>

NextSwarm ==
    \/ InitializeAgentsBegin
    \/ AdjustSeed
    \/ NewRandomAgent
    \/ InitSwarmFinish

SpecSwarm == InitSwarm /\ [][NextSwarm]_vars

(* ===================== claims on the swarm optimizer ================== *)

\* C5 (as stated): adjust_capacity returns, for every input particle and
\* every visiting order, a particle whose selection has total size <=
\* capacity, and never raises.
C5_AdjustReturnsWithinCapacity ==
    call.fn = "adjust_capacity" =>
        /\ call.result.exc = "None"
        /\ get_agent_size(particles, call.result.val) <= capacity

\* C7 (as stated): init_swarm called with n_agents <= 0 raises and leaves
\* the optimizer uninitialized, whatever the seed particles.
C7_NonPositiveAgentsFail ==
    n_agents <= 0 => pso_pc # "done" /\ swarm = {}

TheSwarm == CHOOSE w \in swarm : TRUE

\* The greatest objective among the agents of the swarm.
IsBestAgent(k) ==
    \A j \in DOMAIN TheSwarm.agents :
        particles[TheSwarm.agents[j]].objective <= particles[TheSwarm.agents[k]].objective

\* C8 (as stated): after init_swarm the social best equals, in selection and
\* objective, the EARLIEST agent among those of greatest objective.
C8_SocialBestIsEarliestBest ==
    pso_pc = "done" =>
        \E k \in DOMAIN TheSwarm.agents :
            /\ IsBestAgent(k)
            /\ \A j \in 1..(k - 1) : ~IsBestAgent(j)
            /\ particles[TheSwarm.social_agent] = particles[TheSwarm.agents[k]]

\* C8 (amended): after init_swarm the social best equals, in selection and
\* objective, the LATEST agent among those of greatest objective.
C8_SocialBestIsLatestBest ==
    pso_pc = "done" =>
        \E k \in DOMAIN TheSwarm.agents :
            /\ IsBestAgent(k)
            /\ \A j \in (k + 1)..Len(TheSwarm.agents) : ~IsBestAgent(j)
            /\ particles[TheSwarm.social_agent] = particles[TheSwarm.agents[k]]

\* C8 witness: a swarm two of whose agents share the greatest objective with
\* different selections.
C8_Witness ==
    /\ pso_pc = "done"
    /\ \E j, k \in DOMAIN TheSwarm.agents :
          /\ j < k
          /\ IsBestAgent(j)
          /\ IsBestAgent(k)
          /\ particles[TheSwarm.agents[j]].selection
                # particles[TheSwarm.agents[k]].selection

\* C11 (as stated): adjust_capacity, given a particle whose size is strictly
\* below capacity, returns for every visiting order a particle that holds
\* every item of the input selection and leaves unselected no item whose
\* size fits in the remaining capacity (capacity minus the result's size).
C11_IncreaseKeepsInputAndFillsCapacity ==
    (/\ call.fn = "adjust_capacity"
     /\ get_agent_size(particles, call.args.agent) < capacity) =>
        /\ call.result.exc = "None"
        /\ ToSet(particles[call.args.agent].selection)
              \subseteq ToSet(particles[call.result.val].selection)
        /\ \A i \in Items \ ToSet(particles[call.result.val].selection) :
              item_sizes[i] > capacity - get_agent_size(particles, call.result.val)

\* The particles the swarm holds: its agents, cognitive bests and social best.
SwarmParticles(w) ==
    ToSet(w.agents) \cup ToSet(w.cognitive_agents) \cup {w.social_agent}

\* C12 (as stated): no step of init_swarm changes the selection or the
\* objective of a seed particle passed by the caller, and the swarm it builds
\* holds no seed particle as an agent, a cognitive best or the social best.
C12_SeedsNeitherAliasedNorChanged ==
    [][/\ \A k \in DOMAIN custom : particles'[custom[k]] = particles[custom[k]]
       /\ \A w \in swarm' : SwarmParticles(w) \cap ToSet(custom) = {}]_vars

====
